---- MODULE Spec2Model ----
(***************************************************************************)
(* Remote Config storage (packages/remote-config/src/storage/storage.ts):  *)
(* the IndexedDB backed store (IndexedDbStorage), the in-memory store      *)
(* (InMemoryStorage), the composite key and the custom signal merge.       *)
(***************************************************************************)
EXTENDS Integers, Sequences, FiniteSets, TLC

(***************************************************************************)
(* Bounds of the model.                                                    *)
(***************************************************************************)
\* The model's value of the custom signal limit (the SDK's constant is far
\* larger; the merge only compares the entry count with it).
MaxSignals == 2
\* Call slots: how many calls may be in flight at once.
NumCalls == 2
\* How many calls are started in one behaviour on the IndexedDB backend, and
\* how many on the in-memory one (whose calls take one step each).
MaxOps == 2
MaxMemOps == 3
\* How many failures the medium reports in one behaviour.
MaxFaults == 1
\* Calls in a sequence of awaited calls.
MaxSeqOps == 4

(***************************************************************************)
(* JavaScript values.  A primitive is a record of its type tag, its number *)
(* and its characters; an object (a CustomSignals map) is a function from  *)
(* its own keys to primitives.                                             *)
(***************************************************************************)
Prim(t, n, s) == [t |-> t, n |-> n, s |-> s]
Null == Prim("null", 0, "")
Undefined == Prim("undefined", 0, "")
Num(n) == Prim("number", n, "")
Str(s) == Prim("string", 0, s)

\* A stored or returned value: a primitive, or an object with entries m.
PrimValue(p) == [t |-> p.t, n |-> p.n, s |-> p.s, m |-> <<>>]
Obj(m) == [t |-> "object", n |-> 0, s |-> "", m |-> m]
UndefinedValue == PrimValue(Undefined)

Digits == <<"0", "1", "2", "3", "4", "5", "6", "7", "8", "9">>

RECURSIVE NatToString(_)
NatToString(n) ==
  IF n < 10 THEN Digits[n + 1]
  ELSE NatToString(n \div 10) \o Digits[(n % 10) + 1]

\* Number.prototype.toString for an integer.
NumberToString(n) == IF n < 0 THEN "-" \o NatToString(0 - n) ELSE NatToString(n)

(***************************************************************************)
(* Constants of the program.                                               *)
(***************************************************************************)
APP_NAMESPACE_STORE == "app_namespace_store"
RC_CUSTOM_SIGNAL_MAX_ALLOWED_SIGNALS == MaxSignals

ProjectNamespaceKeyFieldValue ==
  { "active_config", "active_config_etag", "last_fetch_status",
    "last_successful_fetch_timestamp_millis", "last_successful_fetch_response",
    "settings", "throttle_metadata", "custom_signals" }

(***************************************************************************)
(* createCompositeKey: [appId, appName, namespace, key].join().            *)
(***************************************************************************)
RECURSIVE Join(_)
\* Array.prototype.join with its default separator, the comma.
Join(parts) ==
  IF Len(parts) = 0 THEN ""
  ELSE IF Len(parts) = 1 THEN parts[1]
  ELSE parts[1] \o "," \o Join(Tail(parts))

createCompositeKey(app, key) ==
  Join(<<app.appId, app.appName, app.namespace, key>>)

(***************************************************************************)
(* mergeCustomSignals.                                                     *)
(***************************************************************************)
SignalNames == {"a", "b", "c"}
\* The order in which the entries of an object are enumerated.
KeyOrder == <<"a", "b", "c">>
SignalValues == {Null, Num(3), Str("1"), Str("2")}

\* Every object whose keys are signal names: what a caller may pass and what
\* set('custom_signals', ...) may have stored.
SignalMaps == UNION { [D -> SignalValues] : D \in SUBSET SignalNames }

\* { ...storedSignals, ...customSignals }
Spread(storedSignals, customSignals) ==
  [k \in (DOMAIN storedSignals) \cup (DOMAIN customSignals) |->
     IF k \in DOMAIN customSignals THEN customSignals[k] ELSE storedSignals[k]]

\* Object.entries
Entries(obj) ==
  LET keys == SelectSeq(KeyOrder, LAMBDA k : k \in DOMAIN obj)
  IN  [i \in 1..Len(keys) |-> <<keys[i], obj[keys[i]]>>]

\* Object.fromEntries: a later entry of the same key replaces an earlier one,
\* so each key takes the value of its last entry.
FromEntries(entries) ==
  [k \in {entries[i][1] : i \in 1..Len(entries)} |->
     entries[CHOOSE i \in 1..Len(entries) :
               /\ entries[i][1] = k
               /\ \A j \in (i + 1)..Len(entries) : entries[j][1] # k][2]]

\* The same with every value serialised: a string is put in quotes.
Stringify_QuotesAll(e) ==
  IF e[2].t = "number" THEN <<e[1], Str(NumberToString(e[2].n))>>
  ELSE <<e[1], Str("\"" \o e[2].s \o "\"")>>

\* The map step: a number becomes its string, anything else is kept.
Stringify(e) ==
  IF e[2].t = "number" THEN <<e[1], Str(NumberToString(e[2].n))>> ELSE e

UpdatedSignals(customSignals, storedSignals) ==
  LET combinedSignals == Spread(storedSignals, customSignals)
      kept == SelectSeq(Entries(combinedSignals), LAMBDA e : e[2] # Null)
  IN  FromEntries([i \in 1..Len(kept) |-> Stringify(kept[i])])

mergeCustomSignals_StoredWins(customSignals, storedSignals) ==
  LET updatedSignals == UpdatedSignals(storedSignals, customSignals)
  IN  IF Cardinality(DOMAIN updatedSignals) > RC_CUSTOM_SIGNAL_MAX_ALLOWED_SIGNALS
      THEN [threw |-> TRUE, signals |-> <<>>]
      ELSE [threw |-> FALSE, signals |-> updatedSignals]

\* The same without the stored signals: the new ones replace them.
mergeCustomSignals_DropsStored(customSignals, storedSignals) ==
  LET updatedSignals == UpdatedSignals(customSignals, <<>>)
  IN  IF Cardinality(DOMAIN updatedSignals) > RC_CUSTOM_SIGNAL_MAX_ALLOWED_SIGNALS
      THEN [threw |-> TRUE, signals |-> <<>>]
      ELSE [threw |-> FALSE, signals |-> updatedSignals]

\* The outcome of mergeCustomSignals: it throws the limit error or returns
\* the updated signals.
mergeCustomSignals(customSignals, storedSignals) ==
  LET updatedSignals == UpdatedSignals(customSignals, storedSignals)
  IN  IF Cardinality(DOMAIN updatedSignals) > RC_CUSTOM_SIGNAL_MAX_ALLOWED_SIGNALS
      THEN [threw |-> TRUE, signals |-> <<>>]
      ELSE [threw |-> FALSE, signals |-> updatedSignals]

(***************************************************************************)
(* The storage instances.  Instance MEM is the InMemoryStorage; the        *)
(* instances of Insts are IndexedDbStorage objects that share the one      *)
(* physical database.                                                      *)
(***************************************************************************)
MEM == 0
Insts == {1, 2}
Calls == 1..NumCalls

App(appId, appName, namespace) ==
  [appId |-> appId, appName |-> appName, namespace |-> namespace]

\* Instance 1's app; instance 2 is an app whose id and name split the same
\* characters differently, or another namespace of instance 1's app.
FirstApp == App("a", "b,c", "n")
SecondApps == {App("a,b", "c", "n"), App("a", "b,c", "m")}

\* The fields the calls of a behaviour name.
Fields == {"custom_signals", "throttle_metadata"}

\* What set(key, value) is called with.
SetValues(key) ==
  IF key = "custom_signals"
  THEN {Obj([k \in SignalNames |-> Str("1")])}
  ELSE {PrimValue(Num(0))}

\* What setCustomSignals is called with.
Updates ==
  { [k \in {"a"} |-> Num(3)],
    [k \in {"a", "b"} |-> IF k = "a" THEN Null ELSE Str("1")],
    [k \in {"c"} |-> Str("2")] }

VARIABLES
  backend,         \* which Storage the program was built with
  apps,            \* instance -> (appId, appName, namespace)
  database,        \* the physical database: its version and object stores
  openDbPromise,   \* instance -> "pending", "fulfilled" or "rejected"
  store,           \* the committed records of APP_NAMESPACE_STORE
  storage,         \* InMemoryStorage.storage
  calls,           \* call slot -> the call in it and where it stands
  txQueue,         \* the live transactions, in creation order
  ops,             \* calls started so far
  faults,          \* failures the medium may still report
  settled,         \* record -> the set or delete last resolved on it, if any
  written,         \* records some set or setCustomSignals call was started on
  wroteInst,       \* (instance, field) pairs the instance started a write on
  lastCommitInst,  \* the instance whose transaction last committed a write
  probe            \* the inputs and result of a function applied on its own

vars ==
  <<backend, apps, database, openDbPromise, store, storage, calls, txQueue, ops, faults,
    settled, written, wroteInst, lastCommitInst, probe>>

storeVars ==
  <<backend, apps, database, openDbPromise, store, storage, calls, txQueue, ops, faults,
    settled, written, wroteInst, lastCommitInst>>

NoExpect == [kind |-> "none", value |-> UndefinedValue]
NoWrite == [kind |-> "none", compositeKey |-> "", value |-> UndefinedValue]

IdleCall ==
  [pc |-> "idle", inst |-> MEM, op |-> "none", key |-> "", value |-> UndefinedValue,
   req |-> "none", outcome |-> "none", result |-> UndefinedValue, error |-> "none",
   fault |-> "none", puts |-> 0, expect |-> NoExpect]

\* The database as the constructors leave it: its version, its object stores
\* and, for each IndexedDbStorage, the open requests made for it, the one
\* openDatabase() call of its constructor.
Database(version, objectStores) ==
  [version |-> version, objectStores |-> objectStores,
   openRequests |-> [i \in Insts |-> 1]]

\* The record a call on instance i names by key: the composite key in the
\* shared database, the key itself in the in-memory object.
RecordId(i, key) == IF i = MEM THEN key ELSE createCompositeKey(apps[i], key)

\* What an earlier session of instance 1's app may have left in the database.
EarlierRecords ==
  { [compositeKey |-> createCompositeKey(FirstApp, "custom_signals"),
     value |-> Obj([k \in {"b", "c"} |-> IF k = "b" THEN Str("1") ELSE Str("2")])],
    [compositeKey |-> createCompositeKey(FirstApp, "throttle_metadata"),
     value |-> PrimValue(Str("v"))] }

\* The state once the storage objects are constructed: every
\* IndexedDbStorage has called openDatabase(), the InMemoryStorage is empty.
\* The database is new, or holds what an earlier session stored.
InitStore ==
  /\ backend \in {"IndexedDbStorage", "InMemoryStorage"}
  /\ apps \in {[i \in Insts |-> IF i = 1 THEN FirstApp ELSE a] : a \in SecondApps}
  /\ store \in {{}, EarlierRecords}
  /\ backend = "InMemoryStorage" =>
       /\ store = {}
       /\ apps[2] = App("a", "b,c", "m")
  /\ database = IF store = {} THEN Database(0, {})
                ELSE Database(1, {APP_NAMESPACE_STORE})
  /\ openDbPromise = [i \in Insts |-> "pending"]
  /\ storage = <<>>
  /\ calls = [c \in Calls |-> IdleCall]
  /\ txQueue = <<>>
  /\ ops = 0
  /\ faults = MaxFaults
  /\ settled = <<>>
  /\ written = {r.compositeKey : r \in store}
  /\ wroteInst = {}
  /\ lastCommitInst = MEM

Init == InitStore /\ probe = [stage |-> "none"]

(***************************************************************************)
(* The medium: one object store keyed by compositeKey, and transactions.   *)
(* A readwrite transaction runs only when every transaction created before *)
(* it has finished; a readonly one runs beside other readonly ones.  A     *)
(* transaction's write reaches the store when the transaction completes.   *)
(***************************************************************************)
\* objectStore.get(compositeKey): the records found (none or one).
StoreGet(compositeKey) == {r \in store : r.compositeKey = compositeKey}

\* objectStore.put({compositeKey, value}) and objectStore.delete(compositeKey).
StorePut(s, compositeKey, value) ==
  {r \in s : r.compositeKey # compositeKey}
    \cup {[compositeKey |-> compositeKey, value |-> value]}
StoreDelete(s, compositeKey) == {r \in s : r.compositeKey # compositeKey}

ApplyWrite(s, w) ==
  IF w.kind = "put" THEN StorePut(s, w.compositeKey, w.value)
  ELSE IF w.kind = "delete" THEN StoreDelete(s, w.compositeKey)
  ELSE s

TxIndex(c) == CHOOSE i \in 1..Len(txQueue) : txQueue[i].owner = c

Runnable(idx) ==
  IF txQueue[idx].mode = "readwrite" THEN idx = 1
  ELSE \A j \in 1..(idx - 1) : txQueue[j].mode = "readonly"

RemoveAt(q, idx) == SubSeq(q, 1, idx - 1) \o SubSeq(q, idx + 1, Len(q))

\* The request's onsuccess of getWithTransaction: result.value of a record
\* found, undefined when there is none.
getWithTransaction_ResultItself(compositeKey) ==
  LET found == StoreGet(compositeKey)
  IN  IF found # {} THEN PrimValue(Str((CHOOSE r \in found : TRUE).compositeKey))
      ELSE UndefinedValue

\* The same testing the stored value, not the record found: a stored 0 or ""
\* reads as undefined.
getWithTransaction_FalsyIsMissing(compositeKey) ==
  LET found == StoreGet(compositeKey)
      value == (CHOOSE r \in found : TRUE).value
  IN  IF found # {} /\ ~(value.t = "number" /\ value.n = 0)
                   /\ ~(value.t = "string" /\ value.s = "")
      THEN value ELSE UndefinedValue

getWithTransaction(compositeKey) ==
  LET found == StoreGet(compositeKey)
  IN  IF found # {} THEN (CHOOSE r \in found : TRUE).value ELSE UndefinedValue

\* this.storage[key]
StorageGet(key) == IF key \in DOMAIN storage THEN storage[key] ELSE UndefinedValue

\* What a get(key) on instance i returns from the committed state.
Read(i, key) ==
  IF i = MEM THEN StorageGet(key) ELSE getWithTransaction(RecordId(i, key))

Truthy(v) ==
  \/ v.t = "object"
  \/ v.t = "string" /\ v.s # ""
  \/ v.t = "number" /\ v.n # 0

\* storedSignals || {}
OrEmpty(v) == IF Truthy(v) THEN v.m ELSE <<>>

ErrorOfRequest(req) ==
  IF req = "get" THEN "storage-get"
  ELSE IF req = "put" THEN "storage-set"
  ELSE "storage-delete"

(***************************************************************************)
(* History kept for the properties: which set or delete last resolved on a *)
(* record with no other write to it under way, and who wrote what.         *)
(***************************************************************************)
InFlight(d) == calls[d].pc \in {"awaitOpen", "request"}
IsWrite(op) == op \in {"set", "delete", "setCustomSignals"}
Settled(id) == IF id \in DOMAIN settled THEN settled[id] ELSE NoExpect
Settle(id, e) == [x \in (DOMAIN settled) \cup {id} |-> IF x = id THEN e ELSE settled[x]]

\* No write call other than c is under way on the record.
OnlyWriter(c, id) ==
  \A d \in Calls \ {c} :
    ~(InFlight(d) /\ IsWrite(calls[d].op) /\ RecordId(calls[d].inst, calls[d].key) = id)

\* A call starts in slot c: the history notes a write as soon as it starts;
\* e is what the history holds of the record once the step is done.
Begin(c, call, e) ==
  LET id == RecordId(call.inst, call.key)
      new == IF call.op = "get" THEN [call EXCEPT !.expect = Settled(id)] ELSE call
  IN  /\ calls[c].pc \in {"idle", "done"}
      /\ \A d \in Calls : d < c => InFlight(d)
      /\ backend = (IF call.inst = MEM THEN "InMemoryStorage" ELSE "IndexedDbStorage")
      /\ ops < (IF call.inst = MEM THEN MaxMemOps ELSE MaxOps)
      /\ ops' = ops + 1
      /\ calls' = [d \in Calls |->
                     IF d = c THEN new
                     ELSE IF /\ IsWrite(call.op)
                             /\ calls[d].op = "get"
                             /\ InFlight(d)
                             /\ RecordId(calls[d].inst, calls[d].key) = id
                          THEN [calls[d] EXCEPT !.expect = NoExpect]
                          ELSE calls[d]]
      /\ settled' = IF IsWrite(call.op) THEN Settle(id, e) ELSE settled
      /\ written' = IF call.op \in {"set", "setCustomSignals"}
                    THEN written \cup {id} ELSE written
      /\ wroteInst' = IF call.op \in {"set", "setCustomSignals"}
                      THEN wroteInst \cup {<<call.inst, call.key>>} ELSE wroteInst

Finish(call, outcome, result, error, fault) ==
  [call EXCEPT !.pc = "done", !.req = "none", !.outcome = outcome,
               !.result = result, !.error = error, !.fault = fault]

(***************************************************************************)
(* openDatabase, run by the constructor of each IndexedDbStorage.          *)
(***************************************************************************)
\* The same with an upgrade that ignores oldVersion: every open creates the
\* store anew, dropping the records of the one it replaces.
OpenSuccess_Recreates(i) ==
  /\ openDbPromise[i] = "pending"
  /\ openDbPromise' = [openDbPromise EXCEPT ![i] = "fulfilled"]
  /\ database' = [database EXCEPT !.version = 1,
                                  !.objectStores = {APP_NAMESPACE_STORE}]
  /\ store' = {}
  /\ UNCHANGED <<backend, apps, storage, calls, txQueue, ops, faults, settled,
                 written, wroteInst, lastCommitInst, probe>>

\* onupgradeneeded (oldVersion 0 creates the store), then onsuccess.
OpenSuccess(i) ==
  /\ openDbPromise[i] = "pending"
  /\ openDbPromise' = [openDbPromise EXCEPT ![i] = "fulfilled"]
  /\ database' = IF database.version = 0
                 THEN [database EXCEPT
                         !.version = 1,
                         !.objectStores = @ \cup {APP_NAMESPACE_STORE}]
                 ELSE database
  /\ UNCHANGED <<backend, apps, store, storage, calls, txQueue, ops, faults, settled,
                 written, wroteInst, lastCommitInst, probe>>

\* request.onerror, or indexedDB.open throwing: the promise rejects with
\* storage-open.
OpenError(i) ==
  /\ openDbPromise[i] = "pending"
  /\ faults > 0
  /\ faults' = faults - 1
  /\ openDbPromise' = [openDbPromise EXCEPT ![i] = "rejected"]
  /\ UNCHANGED <<backend, apps, database, store, storage, calls, txQueue, ops, settled,
                 written, wroteInst, lastCommitInst, probe>>

(***************************************************************************)
(* IndexedDbStorage: a call runs up to `await this.openDbPromise`.         *)
(***************************************************************************)
IdbCall(i, op, key, value) ==
  [IdleCall EXCEPT !.pc = "awaitOpen", !.inst = i, !.op = op, !.key = key,
                   !.value = value]

IdbBegin(c, i, op, key, value) ==
  /\ Begin(c, IdbCall(i, op, key, value), NoExpect)
  /\ UNCHANGED <<backend, apps, database, openDbPromise, store, storage, txQueue, faults,
                 lastCommitInst, probe>>

IndexedDbGet(c, i, key) == IdbBegin(c, i, "get", key, UndefinedValue)
IndexedDbSet(c, i, key, value) == IdbBegin(c, i, "set", key, value)
IndexedDbDelete(c, i, key) == IdbBegin(c, i, "delete", key, UndefinedValue)
IndexedDbSetCustomSignals(c, i, customSignals) ==
  IdbBegin(c, i, "setCustomSignals", "custom_signals", Obj(customSignals))

\* The same with a retry: a call that finds the open promise rejected opens
\* the database again and waits for the new open.
OpenRejected_Retry(c) ==
  /\ calls[c].pc = "awaitOpen"
  /\ openDbPromise[calls[c].inst] = "rejected"
  /\ openDbPromise' = [openDbPromise EXCEPT ![calls[c].inst] = "pending"]
  /\ database' = [database EXCEPT !.openRequests[calls[c].inst] = @ + 1]
  /\ UNCHANGED <<backend, apps, store, storage, calls, txQueue, ops, faults, settled,
                 written, wroteInst, lastCommitInst, probe>>

\* The awaited open promise is rejected: the call rejects with its error.
OpenRejected(c) ==
  /\ calls[c].pc = "awaitOpen"
  /\ openDbPromise[calls[c].inst] = "rejected"
  /\ calls' = [calls EXCEPT ![c] =
                 Finish(@, "rejected", UndefinedValue, "storage-open", "open")]
  /\ UNCHANGED <<backend, apps, database, openDbPromise, store, storage, txQueue, ops,
                 faults, settled, written, wroteInst, lastCommitInst, probe>>

FirstRequest(op) ==
  IF op = "set" THEN "put" ELSE IF op = "delete" THEN "delete" ELSE "get"

\* The same with the database opened anew for the operation instead of the
\* open of the constructor being awaited.
IssueRequest_OpensAgain(c) ==
  /\ calls[c].pc = "awaitOpen"
  /\ openDbPromise[calls[c].inst] = "fulfilled"
  /\ database' = [database EXCEPT !.openRequests[calls[c].inst] = @ + 1]
  /\ txQueue' = Append(txQueue,
                  [owner |-> c, inst |-> calls[c].inst,
                   mode |-> IF calls[c].op = "get" THEN "readonly" ELSE "readwrite",
                   write |-> NoWrite])
  /\ calls' = [calls EXCEPT ![c].pc = "request",
                            ![c].req = FirstRequest(calls[c].op),
                            ![c].puts = IF calls[c].op = "set" THEN 1 ELSE 0]
  /\ UNCHANGED <<backend, apps, openDbPromise, store, storage, ops, faults,
                 settled, written, wroteInst, lastCommitInst, probe>>

\* db.transaction(...), transaction.objectStore(...) and the first request
\* of the call: get, put or delete.
IssueRequest(c) ==
  /\ calls[c].pc = "awaitOpen"
  /\ openDbPromise[calls[c].inst] = "fulfilled"
  /\ txQueue' = Append(txQueue,
                  [owner |-> c, inst |-> calls[c].inst,
                   mode |-> IF calls[c].op = "get" THEN "readonly" ELSE "readwrite",
                   write |-> NoWrite])
  /\ calls' = [calls EXCEPT ![c].pc = "request",
                            ![c].req = FirstRequest(calls[c].op),
                            ![c].puts = IF calls[c].op = "set" THEN 1 ELSE 0]
  /\ UNCHANGED <<backend, apps, database, openDbPromise, store, storage, ops, faults,
                 settled, written, wroteInst, lastCommitInst, probe>>

\* db.transaction(...) throws: nothing catches it, the call rejects with the
\* medium's own error.
TransactionThrows(c) ==
  /\ calls[c].pc = "awaitOpen"
  /\ openDbPromise[calls[c].inst] = "fulfilled"
  /\ faults > 0
  /\ faults' = faults - 1
  /\ calls' = [calls EXCEPT ![c] =
                 Finish(@, "rejected", UndefinedValue, "raw", "transaction")]
  /\ UNCHANGED <<backend, apps, database, openDbPromise, store, storage, txQueue, ops,
                 settled, written, wroteInst, lastCommitInst, probe>>

\* transaction.objectStore(...) throws, before the try block: the promise
\* rejects with the medium's own error.
ObjectStoreThrows(c) ==
  /\ calls[c].pc = "awaitOpen"
  /\ openDbPromise[calls[c].inst] = "fulfilled"
  /\ faults > 0
  /\ faults' = faults - 1
  /\ calls' = [calls EXCEPT ![c] =
                 Finish(@, "rejected", UndefinedValue, "raw", "objectStore")]
  /\ UNCHANGED <<backend, apps, database, openDbPromise, store, storage, txQueue, ops,
                 settled, written, wroteInst, lastCommitInst, probe>>

\* objectStore.get / put / delete throws inside the try block: the catch
\* rejects with the error of the request.  The transaction holds no request
\* and ends with nothing written.
RequestThrows(c) ==
  /\ calls[c].pc = "awaitOpen"
  /\ openDbPromise[calls[c].inst] = "fulfilled"
  /\ faults > 0
  /\ faults' = faults - 1
  /\ calls' = [calls EXCEPT ![c] =
                 Finish(@, "rejected", UndefinedValue,
                        ErrorOfRequest(FirstRequest(calls[c].op)), "request")]
  /\ UNCHANGED <<backend, apps, database, openDbPromise, store, storage, txQueue, ops,
                 settled, written, wroteInst, lastCommitInst, probe>>

(***************************************************************************)
(* The events of a request, delivered while its transaction runs.  The     *)
(* handler and the continuation of the awaiting call run in one step.      *)
(***************************************************************************)
Detach(q, idx) == [q EXCEPT ![idx].owner = 0]

\* request.onerror: the call rejects with the error of the request, and the
\* transaction aborts with nothing written.
RequestError(c) ==
  /\ calls[c].pc = "request"
  /\ Runnable(TxIndex(c))
  /\ faults > 0
  /\ faults' = faults - 1
  /\ calls' = [calls EXCEPT ![c] =
                 Finish(@, "rejected", UndefinedValue, ErrorOfRequest(calls[c].req),
                        "event")]
  /\ txQueue' = RemoveAt(txQueue, TxIndex(c))
  /\ UNCHANGED <<backend, apps, database, openDbPromise, store, storage, ops, settled,
                 written, wroteInst, lastCommitInst, probe>>

GetSuccess_RejectsMissing(c) ==
  /\ calls[c].pc = "request"
  /\ calls[c].op = "get"
  /\ Runnable(TxIndex(c))
  /\ calls' = [calls EXCEPT ![c] =
                 IF StoreGet(RecordId(calls[c].inst, calls[c].key)) = {}
                 THEN Finish(@, "rejected", UndefinedValue, "storage-get", "none")
                 ELSE Finish(@, "resolved",
                             getWithTransaction(RecordId(calls[c].inst, calls[c].key)),
                             "none", "none")]
  /\ txQueue' = RemoveAt(txQueue, TxIndex(c))
  /\ UNCHANGED <<backend, apps, database, openDbPromise, store, storage, ops, faults,
                 settled, written, wroteInst, lastCommitInst, probe>>

\* get: the request's onsuccess resolves the call.
GetSuccess(c) ==
  /\ calls[c].pc = "request"
  /\ calls[c].op = "get"
  /\ Runnable(TxIndex(c))
  /\ calls' = [calls EXCEPT ![c] =
                 Finish(@, "resolved",
                        getWithTransaction(RecordId(calls[c].inst, calls[c].key)),
                        "none", "none")]
  /\ txQueue' = RemoveAt(txQueue, TxIndex(c))
  /\ UNCHANGED <<backend, apps, database, openDbPromise, store, storage, ops, faults,
                 settled, written, wroteInst, lastCommitInst, probe>>

\* set and setCustomSignals: the put's onsuccess resolves the call, set with
\* nothing and setCustomSignals with the updated signals.
PutSuccess(c) ==
  LET id == RecordId(calls[c].inst, calls[c].key)
      value == IF calls[c].op = "set" THEN calls[c].value ELSE calls[c].result
  IN  /\ calls[c].pc = "request"
      /\ calls[c].req = "put"
      /\ Runnable(TxIndex(c))
      /\ txQueue' = [Detach(txQueue, TxIndex(c)) EXCEPT ![TxIndex(c)].write =
                       [kind |-> "put", compositeKey |-> id, value |-> value]]
      /\ calls' = [calls EXCEPT ![c] =
                     Finish(@, "resolved",
                            IF calls[c].op = "set" THEN UndefinedValue ELSE calls[c].result,
                            "none", "none")]
      /\ settled' = IF calls[c].op = "set" /\ OnlyWriter(c, id)
                    THEN Settle(id, [kind |-> "set", value |-> value])
                    ELSE settled
      /\ UNCHANGED <<backend, apps, database, openDbPromise, store, storage, ops, faults,
                     written, wroteInst, lastCommitInst, probe>>

DeleteSuccess_NothingDeleted(c) ==
  LET id == RecordId(calls[c].inst, calls[c].key)
  IN  /\ calls[c].pc = "request"
      /\ calls[c].req = "delete"
      /\ Runnable(TxIndex(c))
      /\ txQueue' = Detach(txQueue, TxIndex(c))
      /\ calls' = [calls EXCEPT ![c] =
                     Finish(@, "resolved", UndefinedValue, "none", "none")]
      /\ settled' = IF OnlyWriter(c, id)
                    THEN Settle(id, [kind |-> "delete",
                                     value |-> getWithTransaction(id)])
                    ELSE settled
      /\ UNCHANGED <<backend, apps, database, openDbPromise, store, storage, ops, faults,
                     written, wroteInst, lastCommitInst, probe>>

\* delete: the request's onsuccess resolves the call.
DeleteSuccess(c) ==
  LET id == RecordId(calls[c].inst, calls[c].key)
  IN  /\ calls[c].pc = "request"
      /\ calls[c].req = "delete"
      /\ Runnable(TxIndex(c))
      /\ txQueue' = [Detach(txQueue, TxIndex(c)) EXCEPT ![TxIndex(c)].write =
                       [kind |-> "delete", compositeKey |-> id, value |-> UndefinedValue]]
      /\ calls' = [calls EXCEPT ![c] =
                     Finish(@, "resolved", UndefinedValue, "none", "none")]
      /\ settled' = IF OnlyWriter(c, id)
                    THEN Settle(id, [kind |-> "delete",
                                     value |-> getWithTransaction(id)])
                    ELSE settled
      /\ UNCHANGED <<backend, apps, database, openDbPromise, store, storage, ops, faults,
                     written, wroteInst, lastCommitInst, probe>>

\* The same with the read and the write in a transaction each, as get(...)
\* followed by set(...) would run them.
SignalsReadSuccess_TwoTransactions(c) ==
  LET storedSignals == getWithTransaction(RecordId(calls[c].inst, "custom_signals"))
      merged == mergeCustomSignals(calls[c].value.m, OrEmpty(storedSignals))
      idx == TxIndex(c)
  IN  /\ calls[c].pc = "request"
      /\ calls[c].op = "setCustomSignals"
      /\ calls[c].req = "get"
      /\ Runnable(idx)
      /\ IF merged.threw
         THEN /\ calls' = [calls EXCEPT ![c] =
                             Finish(@, "rejected", UndefinedValue,
                                    "custom-signal-max-allowed-signals", "none")]
              /\ txQueue' = RemoveAt(txQueue, idx)
         ELSE /\ calls' = [calls EXCEPT ![c].req = "put", ![c].puts = 1,
                                        ![c].result = Obj(merged.signals)]
              /\ txQueue' = Append(RemoveAt(txQueue, idx),
                              [owner |-> c, inst |-> calls[c].inst,
                               mode |-> "readwrite", write |-> NoWrite])
      /\ UNCHANGED <<backend, apps, database, openDbPromise, store, storage, ops, faults,
                     settled, written, wroteInst, lastCommitInst, probe>>

\* The same with the limit error thrown inside the request's handler, where
\* nothing settles the promise of the call.
SignalsReadSuccess_LimitLeavesPending(c) ==
  LET storedSignals == getWithTransaction(RecordId(calls[c].inst, "custom_signals"))
      merged == mergeCustomSignals(calls[c].value.m, OrEmpty(storedSignals))
      idx == TxIndex(c)
  IN  /\ calls[c].pc = "request"
      /\ calls[c].op = "setCustomSignals"
      /\ calls[c].req = "get"
      /\ Runnable(idx)
      /\ IF merged.threw
         THEN /\ calls' = [calls EXCEPT ![c].pc = "hung", ![c].req = "none"]
              /\ txQueue' = RemoveAt(txQueue, idx)
         ELSE /\ calls' = [calls EXCEPT ![c].req = "put", ![c].puts = 1,
                                        ![c].result = Obj(merged.signals)]
              /\ txQueue' = txQueue
      /\ UNCHANGED <<backend, apps, database, openDbPromise, store, storage, ops, faults,
                     settled, written, wroteInst, lastCommitInst, probe>>

\* setCustomSignals: the get's onsuccess resumes the call, which merges and
\* either throws the limit error or puts the updated signals in the same
\* transaction.
SignalsReadSuccess(c) ==
  LET storedSignals == getWithTransaction(RecordId(calls[c].inst, "custom_signals"))
      merged == mergeCustomSignals(calls[c].value.m, OrEmpty(storedSignals))
      idx == TxIndex(c)
  IN  /\ calls[c].pc = "request"
      /\ calls[c].op = "setCustomSignals"
      /\ calls[c].req = "get"
      /\ Runnable(idx)
      /\ IF merged.threw
         THEN /\ calls' = [calls EXCEPT ![c] =
                             Finish(@, "rejected", UndefinedValue,
                                    "custom-signal-max-allowed-signals", "none")]
              /\ txQueue' = RemoveAt(txQueue, idx)
         ELSE /\ calls' = [calls EXCEPT ![c].req = "put", ![c].puts = 1,
                                        ![c].result = Obj(merged.signals)]
              /\ txQueue' = txQueue
      /\ UNCHANGED <<backend, apps, database, openDbPromise, store, storage, ops, faults,
                     settled, written, wroteInst, lastCommitInst, probe>>

\* setCustomSignals: the merge succeeded and setWithTransaction fails to
\* issue the put.  objectStore(...) throwing rejects with the medium's own
\* error, put(...) throwing with storage-set.
SignalsPutThrows(c, fault) ==
  LET storedSignals == getWithTransaction(RecordId(calls[c].inst, "custom_signals"))
      merged == mergeCustomSignals(calls[c].value.m, OrEmpty(storedSignals))
      idx == TxIndex(c)
  IN  /\ calls[c].pc = "request"
      /\ calls[c].op = "setCustomSignals"
      /\ calls[c].req = "get"
      /\ Runnable(idx)
      /\ ~merged.threw
      /\ faults > 0
      /\ faults' = faults - 1
      /\ calls' = [calls EXCEPT ![c] =
                     Finish(@, "rejected", UndefinedValue,
                            IF fault = "objectStore" THEN "raw" ELSE "storage-set",
                            fault)]
      /\ txQueue' = RemoveAt(txQueue, idx)
      /\ UNCHANGED <<backend, apps, database, openDbPromise, store, storage, ops, settled,
                     written, wroteInst, lastCommitInst, probe>>

\* A transaction whose requests are done completes: its write is committed.
TxComplete(idx) ==
  /\ idx <= Len(txQueue)
  /\ txQueue[idx].owner = 0
  /\ Runnable(idx)
  /\ store' = ApplyWrite(store, txQueue[idx].write)
  /\ lastCommitInst' = IF txQueue[idx].write.kind = "none" THEN lastCommitInst
                       ELSE txQueue[idx].inst
  /\ txQueue' = RemoveAt(txQueue, idx)
  /\ UNCHANGED <<backend, apps, database, openDbPromise, storage, calls, ops, faults,
                 settled, written, wroteInst, probe>>

\* A transaction whose requests succeeded fails to commit (the quota is
\* exceeded, the disk fails): it aborts and its write is dropped.  The code
\* sets no handler on the transaction, and the call has resolved already.
TxAbort(idx) ==
  /\ idx <= Len(txQueue)
  /\ txQueue[idx].owner = 0
  /\ Runnable(idx)
  /\ faults > 0
  /\ faults' = faults - 1
  /\ txQueue' = RemoveAt(txQueue, idx)
  /\ UNCHANGED <<backend, apps, database, openDbPromise, store, storage, calls, ops,
                 settled, written, wroteInst, lastCommitInst, probe>>

(***************************************************************************)
(* InMemoryStorage: no call awaits anything, each runs in one step.        *)
(***************************************************************************)
MemCall(op, key, value) ==
  [IdleCall EXCEPT !.inst = MEM, !.op = op, !.key = key, !.value = value]

\* this.storage[key] = value
StorageSet(key, value) ==
  [k \in (DOMAIN storage) \cup {key} |-> IF k = key THEN value ELSE storage[k]]

InMemoryGet(c, key) ==
  /\ Begin(c, Finish(MemCall("get", key, UndefinedValue), "resolved",
                     StorageGet(key), "none", "none"), NoExpect)
  /\ UNCHANGED <<backend, apps, database, openDbPromise, store, storage, txQueue, faults,
                 lastCommitInst, probe>>

InMemorySet(c, key, value) ==
  /\ Begin(c, Finish(MemCall("set", key, value), "resolved", UndefinedValue,
                     "none", "none"),
           [kind |-> "set", value |-> value])
  /\ storage' = StorageSet(key, value)
  /\ UNCHANGED <<backend, apps, database, openDbPromise, store, txQueue, faults,
                 lastCommitInst, probe>>

\* this.storage[key] = undefined
InMemoryDelete(c, key) ==
  /\ Begin(c, Finish(MemCall("delete", key, UndefinedValue), "resolved",
                     UndefinedValue, "none", "none"),
           [kind |-> "delete", value |-> StorageGet(key)])
  /\ storage' = StorageSet(key, UndefinedValue)
  /\ UNCHANGED <<backend, apps, database, openDbPromise, store, txQueue, faults,
                 lastCommitInst, probe>>

InMemorySetCustomSignals_WriteFirst(c, customSignals) ==
  LET storedSignals == OrEmpty(StorageGet("custom_signals"))
      merged == mergeCustomSignals(customSignals, storedSignals)
      call == [MemCall("setCustomSignals", "custom_signals", Obj(customSignals))
                 EXCEPT !.puts = 1]
  IN  /\ storage' = StorageSet("custom_signals",
                               Obj(UpdatedSignals(customSignals, storedSignals)))
      /\ IF merged.threw
         THEN Begin(c, Finish(call, "rejected", UndefinedValue,
                              "custom-signal-max-allowed-signals", "none"), NoExpect)
         ELSE Begin(c, Finish(call, "resolved", Obj(merged.signals), "none", "none"),
                    NoExpect)
      /\ UNCHANGED <<backend, apps, database, openDbPromise, store, txQueue, faults,
                     lastCommitInst, probe>>

\* The same with a suspension point between the read and the assignment: the
\* call reads the stored signals and is suspended; resumed, it merges into
\* what it read and assigns.
InMemorySetCustomSignals_Suspends(c, customSignals) ==
  \/ /\ Begin(c, [MemCall("setCustomSignals", "custom_signals", Obj(customSignals))
                    EXCEPT !.pc = "suspended",
                           !.result = StorageGet("custom_signals")], NoExpect)
     /\ UNCHANGED <<backend, apps, database, openDbPromise, store, storage, txQueue,
                    faults, lastCommitInst, probe>>
  \/ LET merged == mergeCustomSignals(customSignals, OrEmpty(calls[c].result))
     IN  /\ calls[c].pc = "suspended"
         /\ calls[c].value = Obj(customSignals)
         /\ IF merged.threw
            THEN /\ calls' = [calls EXCEPT ![c] =
                                Finish(@, "rejected", UndefinedValue,
                                       "custom-signal-max-allowed-signals", "none")]
                 /\ storage' = storage
            ELSE /\ calls' = [calls EXCEPT ![c] =
                                Finish([@ EXCEPT !.puts = 1], "resolved",
                                       Obj(merged.signals), "none", "none")]
                 /\ storage' = StorageSet("custom_signals", Obj(merged.signals))
         /\ UNCHANGED <<backend, apps, database, openDbPromise, store, txQueue, ops,
                        faults, settled, written, wroteInst, lastCommitInst, probe>>

\* The merge runs before the assignment: when it throws, nothing is assigned
\* and the call rejects.
InMemorySetCustomSignals(c, customSignals) ==
  LET storedSignals == OrEmpty(StorageGet("custom_signals"))
      merged == mergeCustomSignals(customSignals, storedSignals)
      call == MemCall("setCustomSignals", "custom_signals", Obj(customSignals))
  IN  /\ IF merged.threw
         THEN /\ Begin(c, Finish(call, "rejected", UndefinedValue,
                                 "custom-signal-max-allowed-signals", "none"), NoExpect)
              /\ storage' = storage
         ELSE /\ Begin(c, Finish([call EXCEPT !.puts = 1], "resolved",
                                 Obj(merged.signals), "none", "none"), NoExpect)
              /\ storage' = StorageSet("custom_signals", Obj(merged.signals))
      /\ UNCHANGED <<backend, apps, database, openDbPromise, store, txQueue, faults,
                     lastCommitInst, probe>>

(***************************************************************************)
(* The storage under any calls, on both backends, with a medium that may   *)
(* fail.                                                                   *)
(***************************************************************************)
Next ==
  \/ \E i \in Insts : OpenSuccess(i)
  \/ \E i \in Insts : OpenError(i)
  \/ \E c \in Calls, i \in Insts, key \in Fields : IndexedDbGet(c, i, key)
  \/ \E c \in Calls, i \in Insts, key \in Fields :
       \E value \in SetValues(key) : IndexedDbSet(c, i, key, value)
  \/ \E c \in Calls, i \in Insts, key \in Fields : IndexedDbDelete(c, i, key)
  \/ \E c \in Calls, i \in Insts, customSignals \in Updates :
       IndexedDbSetCustomSignals(c, i, customSignals)
  \/ \E c \in Calls : OpenRejected(c)
  \/ \E c \in Calls : IssueRequest(c)
  \/ \E c \in Calls : TransactionThrows(c)
  \/ \E c \in Calls : ObjectStoreThrows(c)
  \/ \E c \in Calls : RequestThrows(c)
  \/ \E c \in Calls : RequestError(c)
  \/ \E c \in Calls : GetSuccess(c)
  \/ \E c \in Calls : PutSuccess(c)
  \/ \E c \in Calls : DeleteSuccess(c)
  \/ \E c \in Calls : SignalsReadSuccess(c)
  \/ \E c \in Calls, fault \in {"objectStore", "request"} : SignalsPutThrows(c, fault)
  \/ \E idx \in 1..MaxOps : TxComplete(idx)
  \/ \E c \in Calls, key \in Fields : InMemoryGet(c, key)
  \/ \E c \in Calls, key \in Fields :
       \E value \in SetValues(key) : InMemorySet(c, key, value)
  \/ \E c \in Calls, key \in Fields : InMemoryDelete(c, key)
  \/ \E c \in Calls, customSignals \in Updates : InMemorySetCustomSignals(c, customSignals)

Spec == Init /\ [][Next]_vars

(***************************************************************************)
(* mergeCustomSignals applied to every pair of inputs.                     *)
(***************************************************************************)
InitMerge ==
  /\ probe \in { [stage |-> "input", customSignals |-> n, storedSignals |-> s,
               result |-> [threw |-> FALSE, signals |-> <<>>]] :
              n \in SignalMaps, s \in SignalMaps }
  /\ InitStore
  /\ backend = "InMemoryStorage"

ApplyMerge ==
  /\ probe.stage = "input"
  /\ probe' = [probe EXCEPT !.stage = "merged",
                 !.result = mergeCustomSignals(probe.customSignals, probe.storedSignals)]
  /\ UNCHANGED storeVars

NextMerge == ApplyMerge

SpecMerge == InitMerge /\ [][NextMerge]_vars

\* The value of key k with N laid over S: N's where N has the key, else S's.
C4_Overlaid(k) ==
  IF k \in DOMAIN probe.customSignals THEN probe.customSignals[k]
  ELSE probe.storedSignals[k]

\* C4: a successful mergeCustomSignals(N, S) returns the map over the keys of
\* S and N whose overlaid value (N's where N has the key, else S's) is not
\* null, each mapped to that value, a number replaced by its string.
C4_MergeIsOverlay ==
  (probe.stage = "merged" /\ ~probe.result.threw) =>
    LET keys == { k \in (DOMAIN probe.storedSignals) \cup (DOMAIN probe.customSignals) :
                    C4_Overlaid(k).t # "null" }
    IN  /\ DOMAIN probe.result.signals = keys
        /\ \A k \in keys :
             probe.result.signals[k] =
               IF C4_Overlaid(k).t = "number"
               THEN [t |-> "string", n |-> 0, s |-> NumberToString(C4_Overlaid(k).n)]
               ELSE C4_Overlaid(k)

\* The spec's example: stored {a: "1", b: "2"} and new {b: null, c: 3} give
\* {a: "1", c: "3"}.
C4_Witness ==
  /\ probe.stage = "merged"
  /\ probe.storedSignals = [k \in {"a", "b"} |-> IF k = "a" THEN Str("1") ELSE Str("2")]
  /\ probe.customSignals = [k \in {"b", "c"} |-> IF k = "b" THEN Null ELSE Num(3)]
  /\ ~probe.result.threw
  /\ probe.result.signals = [k \in {"a", "c"} |-> IF k = "a" THEN Str("1") ELSE Str("3")]

(***************************************************************************)
(* createCompositeKey applied to every pair of (app, field).               *)
(***************************************************************************)
KeyApps ==
  { App(appId, appName, namespace) :
      appId \in {"a", "a,b"}, appName \in {"c", "b,c"}, namespace \in {"n", "m"} }

KeyInputs == { [app |-> a, key |-> k] : a \in KeyApps, k \in ProjectNamespaceKeyFieldValue }

InitKeys ==
  /\ probe \in { [stage |-> "input", first |-> x, second |-> y, keys |-> <<"", "">>] :
                  x \in KeyInputs, y \in KeyInputs }
  /\ InitStore
  /\ backend = "InMemoryStorage"

ApplyKey ==
  /\ probe.stage = "input"
  /\ probe' = [probe EXCEPT !.stage = "keyed",
                 !.keys = <<createCompositeKey(probe.first.app, probe.first.key),
                            createCompositeKey(probe.second.app, probe.second.key)>>]
  /\ UNCHANGED storeVars

NextKeys == ApplyKey

SpecKeys == InitKeys /\ [][NextKeys]_vars

\* C5: two tuples (app id, app name, namespace, field) that differ in a
\* component have different composite keys, also when a component holds the
\* delimiter.
C5_KeysUnique ==
  (probe.stage = "keyed" /\ probe.first # probe.second) =>
    probe.keys[1] # probe.keys[2]

(***************************************************************************)
(* Two setCustomSignals calls of one app and namespace, both under way.    *)
(***************************************************************************)
RaceCalls == {1, 2}

\* What custom_signals holds when the two calls start: nothing, or a stored
\* set within the limit.
RaceStored ==
  { UndefinedValue,
    Obj([k \in {"a"} |-> Str("3")]),
    Obj([k \in {"b", "c"} |-> IF k = "b" THEN Str("1") ELSE Str("2")]) }

InitRace ==
  /\ backend = "IndexedDbStorage"
  /\ apps = [i \in Insts |-> FirstApp]
  /\ probe \in { [stage |-> "race", stored |-> v] : v \in RaceStored }
  /\ store = IF probe.stored = UndefinedValue THEN {}
             ELSE {[compositeKey |-> createCompositeKey(FirstApp, "custom_signals"),
                    value |-> probe.stored]}
  /\ database = IF store = {} THEN Database(0, {})
                ELSE Database(1, {APP_NAMESPACE_STORE})
  /\ openDbPromise = [i \in Insts |-> "pending"]
  /\ storage = <<>>
  /\ calls \in { [c \in Calls |->
                    IF c \in RaceCalls
                    THEN IdbCall(inst[c], "setCustomSignals", "custom_signals",
                                 Obj(update[c]))
                    ELSE IdleCall] :
                  inst \in [RaceCalls -> Insts], update \in [RaceCalls -> Updates] }
  /\ txQueue = <<>>
  /\ ops = MaxOps
  /\ faults = MaxFaults
  /\ settled = <<>>
  /\ written = {createCompositeKey(FirstApp, "custom_signals")}
  /\ wroteInst = {<<calls[c].inst, "custom_signals">> : c \in RaceCalls}
  /\ lastCommitInst = MEM

NextRace ==
  \/ \E i \in Insts : OpenSuccess(i)
  \/ \E i \in Insts : OpenError(i)
  \/ \E c \in Calls : OpenRejected(c)
  \/ \E c \in Calls : IssueRequest(c)
  \/ \E c \in Calls : TransactionThrows(c)
  \/ \E c \in Calls : ObjectStoreThrows(c)
  \/ \E c \in Calls : RequestThrows(c)
  \/ \E c \in Calls : RequestError(c)
  \/ \E c \in Calls : PutSuccess(c)
  \/ \E c \in Calls : SignalsReadSuccess(c)
  \/ \E c \in Calls, fault \in {"objectStore", "request"} : SignalsPutThrows(c, fault)
  \/ \E idx \in 1..MaxOps : TxComplete(idx)

SpecRace == InitRace /\ [][NextRace]_vars

\* The merge of call c applied to the stored value v, as a call running alone
\* leaves it: unchanged when the merge throws or the medium failed the call.
SerialStep(v, c) ==
  LET merged == mergeCustomSignals(calls[c].value.m, OrEmpty(v))
  IN  IF calls[c].fault # "none" \/ merged.threw THEN v ELSE Obj(merged.signals)

RaceOver == txQueue = <<>> /\ \A c \in RaceCalls : calls[c].pc = "done"

\* C1: once two concurrent setCustomSignals calls of one app and namespace
\* are over, however their steps interleaved, the stored custom_signals is
\* what the two merges give applied one after the other, in one of the two
\* orders.
C1_NoLostUpdate ==
  RaceOver =>
    Read(1, "custom_signals") \in
      { SerialStep(SerialStep(probe.stored, 1), 2),
        SerialStep(SerialStep(probe.stored, 2), 1) }

\* Both calls resolved and the stored set is neither call's merge alone: it
\* holds what both of them changed.
C1_Witness ==
  /\ RaceOver
  /\ \A c \in RaceCalls : calls[c].outcome = "resolved"
  /\ Read(1, "custom_signals") \notin
       {SerialStep(probe.stored, 1), SerialStep(probe.stored, 2)}
  /\ Read(1, "custom_signals") = SerialStep(SerialStep(probe.stored, 1), 2)

(***************************************************************************)
(* Properties of the storage under any calls.                              *)
(***************************************************************************)
Done(c) == calls[c].pc = "done"

\* C2: on either backend, a get(F) that follows a resolved set(F, V) with
\* no set, delete or setCustomSignals on F's record in between resolves to
\* V (it rejects only when the medium reports a failure to the get itself).
C2_RoundTrip ==
  \A c \in Calls :
    (Done(c) /\ calls[c].op = "get" /\ calls[c].expect.kind = "set") =>
      \/ calls[c].outcome = "resolved" /\ calls[c].result = calls[c].expect.value
      \/ calls[c].outcome = "rejected" /\ calls[c].fault # "none"

\* A get on the IndexedDB backend returned the value a set had stored.
C2_Witness ==
  \E c \in Calls :
    /\ Done(c) /\ calls[c].op = "get" /\ calls[c].inst # MEM
    /\ calls[c].expect.kind = "set"
    /\ calls[c].outcome = "resolved"
    /\ calls[c].result = calls[c].expect.value
    /\ calls[c].result # UndefinedValue

\* The step in which call c ends.
EndsNow(c) ==
  /\ calls'[c].pc = "done"
  /\ \/ InFlight(c)
     \/ /\ ops' = ops + 1
        /\ calls[c].pc \in {"idle", "done"}
        /\ \A d \in Calls : d < c => InFlight(d)

PendingWrites(q) == { q[i].write : i \in 1..Len(q) } \ {NoWrite}

\* C3: on either backend, when setCustomSignals fails with the limit error
\* the call has issued no put and the step leaves every stored record, the
\* in-memory object and the writes awaiting commit as they were.
C3_LimitFailureWritesNothing ==
  [][\A c \in Calls :
       (EndsNow(c) /\ calls'[c].error = "custom-signal-max-allowed-signals") =>
         /\ calls'[c].puts = 0
         /\ store' = store
         /\ storage' = storage
         /\ PendingWrites(txQueue') = PendingWrites(txQueue)]_vars

\* A setCustomSignals failed with the limit error while signals were stored.
C3_Witness ==
  \E c \in Calls :
    /\ Done(c)
    /\ calls[c].error = "custom-signal-max-allowed-signals"
    /\ calls[c].outcome = "rejected"
    /\ Read(calls[c].inst, "custom_signals").t = "object"

\* C6: whatever one instance does, the value a get on an instance of another
\* (app id, app name, namespace) returns does not change: a stored value
\* changes only when a transaction of an instance of the same tuple commits.
C6_Isolation ==
  [][\A j \in Insts, key \in Fields :
       Read(j, key)' # Read(j, key) => apps[lastCommitInst'] = apps[j]]_vars

\* Every stored custom_signals value.
StoredSignals ==
  { r.value : r \in { x \in store :
      \E i \in Insts : x.compositeKey = createCompositeKey(apps[i], "custom_signals") } }
    \cup {StorageGet("custom_signals")}

\* C7: in every reachable state the stored custom_signals holds at most the
\* maximum allowed number of signals.
C7_SignalsBounded ==
  \A v \in StoredSignals :
    v.t = "object" => Cardinality(DOMAIN v.m) <= RC_CUSTOM_SIGNAL_MAX_ALLOWED_SIGNALS

\* C8: a get, set or delete on the IndexedDB backend that the medium failed
\* (at the open, at transaction(), objectStore(), the request or its error
\* event) rejects with the domain error of the operation: storage-open for
\* the open, else storage-get, storage-set or storage-delete.
C8_DomainErrors ==
  \A c \in Calls :
    (Done(c) /\ calls[c].inst # MEM /\ calls[c].fault # "none"
       /\ calls[c].op \in {"get", "set", "delete"}) =>
      /\ calls[c].outcome = "rejected"
      /\ calls[c].error =
           IF calls[c].fault = "open" THEN "storage-open"
           ELSE "storage-" \o calls[c].op

\* C9: on either backend, a get(F) that follows a resolved delete(F) with no
\* write to F's record in between resolves to undefined, whatever was stored
\* before (it rejects only when the medium reports a failure to the get).
C9_DeleteThenGet ==
  \A c \in Calls :
    (Done(c) /\ calls[c].op = "get" /\ calls[c].expect.kind = "delete") =>
      \/ calls[c].outcome = "resolved" /\ calls[c].result = UndefinedValue
      \/ calls[c].outcome = "rejected" /\ calls[c].fault # "none"

\* A get returned undefined after the delete of a record that held a value.
C9_Witness ==
  \E c \in Calls :
    /\ Done(c) /\ calls[c].op = "get" /\ calls[c].inst # MEM
    /\ calls[c].expect.kind = "delete"
    /\ calls[c].expect.value # UndefinedValue
    /\ calls[c].outcome = "resolved"
    /\ calls[c].result = UndefinedValue

\* C10 as claimed: a get(F) on an instance that has never written F resolves
\* to undefined, the medium reporting no error.
C10_NeverWrittenByInstance ==
  \A c \in Calls :
    (Done(c) /\ calls[c].op = "get" /\ calls[c].fault = "none"
       /\ <<calls[c].inst, calls[c].key>> \notin wroteInst) =>
      calls[c].outcome = "resolved" /\ calls[c].result = UndefinedValue

\* C10: a get(F) resolves to undefined and does not reject when no set or
\* setCustomSignals was ever started on F's record, by this instance, by
\* another instance of the same composite key or in an earlier session, the
\* medium reporting no error.
C10_NeverWrittenRecord ==
  \A c \in Calls :
    (Done(c) /\ calls[c].op = "get" /\ calls[c].fault = "none"
       /\ RecordId(calls[c].inst, calls[c].key) \notin written) =>
      calls[c].outcome = "resolved" /\ calls[c].result = UndefinedValue

\* A get on the IndexedDB backend found no record and resolved to undefined.
C10_Witness ==
  \E c \in Calls :
    /\ Done(c) /\ calls[c].op = "get" /\ calls[c].inst # MEM
    /\ RecordId(calls[c].inst, calls[c].key) \notin written
    /\ calls[c].outcome = "resolved"
    /\ calls[c].result = UndefinedValue

\* C11: an open of the database at version 0 creates the one object store;
\* an open of the upgraded database changes nothing of it; no open changes a
\* stored record; after every open exactly one object store exists.
C11_UpgradeIdempotent ==
  [][\A i \in Insts :
       (openDbPromise[i] = "pending" /\ openDbPromise'[i] = "fulfilled") =>
         /\ store' = store
         /\ database'.objectStores = {APP_NAMESPACE_STORE}
         /\ Cardinality(database'.objectStores) = 1
         /\ database.version = 0 => database.objectStores = {}
         /\ database.version # 0 => database' = database]_vars

\* Both instances have opened the database, the later of them finding it
\* upgraded and holding records.
C11_Witness ==
  /\ \A i \in Insts : openDbPromise[i] = "fulfilled"
  /\ database.objectStores = {APP_NAMESPACE_STORE}
  /\ store # {}

(***************************************************************************)
(* A sequence of awaited calls run on a new IndexedDbStorage and on a new  *)
(* InMemoryStorage side by side, with a medium that reports no error: the  *)
(* call of instance 1 is in slot 1, the same call on the InMemoryStorage,  *)
(* which runs to its end at once, in slot 2.                               *)
(***************************************************************************)
\* An InMemoryStorage call as it ends.
InMemoryResult(op, key, value) ==
  LET call == MemCall(op, key, value)
      merged == mergeCustomSignals(value.m, OrEmpty(StorageGet("custom_signals")))
  IN  IF op = "get"
      THEN Finish(call, "resolved", StorageGet(key), "none", "none")
      ELSE IF op \in {"set", "delete"}
      THEN Finish(call, "resolved", UndefinedValue, "none", "none")
      ELSE IF merged.threw
      THEN Finish(call, "rejected", UndefinedValue,
                  "custom-signal-max-allowed-signals", "none")
      ELSE Finish([call EXCEPT !.puts = 1], "resolved", Obj(merged.signals),
                  "none", "none")

\* this.storage once the call has run.
InMemoryStorageAfter(op, key, value) ==
  LET merged == mergeCustomSignals(value.m, OrEmpty(StorageGet("custom_signals")))
  IN  IF op = "set" THEN StorageSet(key, value)
      ELSE IF op = "delete" THEN StorageSet(key, UndefinedValue)
      ELSE IF op = "setCustomSignals" /\ ~merged.threw
      THEN StorageSet("custom_signals", Obj(merged.signals))
      ELSE storage

InitSeq ==
  /\ backend = "both"
  /\ apps = [i \in Insts |-> IF i = 1 THEN FirstApp ELSE App("a", "b,c", "m")]
  /\ store = {}
  /\ database = Database(0, {})
  /\ openDbPromise = [i \in Insts |-> "pending"]
  /\ storage = <<>>
  /\ calls = [c \in Calls |-> IdleCall]
  /\ txQueue = <<>>
  /\ ops = 0
  /\ faults = 0
  /\ settled = <<>>
  /\ written = {}
  /\ wroteInst = {}
  /\ lastCommitInst = MEM
  /\ probe = [stage |-> "seq", prev |-> <<IdleCall, IdleCall>>]

\* The caller, the call before this one over, makes the next call on both.
SeqCall(op, key, value) ==
  /\ probe.stage = "seq"
  /\ calls[1].pc \in {"idle", "done"}
  /\ ops < MaxSeqOps
  /\ ops' = ops + 1
  /\ calls' = [c \in Calls |->
                 IF c = 1 THEN IdbCall(1, op, key, value)
                 ELSE IF c = 2 THEN InMemoryResult(op, key, value)
                 ELSE calls[c]]
  /\ storage' = InMemoryStorageAfter(op, key, value)
  /\ probe' = [probe EXCEPT !.prev = <<calls[1], calls[2]>>]
  /\ UNCHANGED <<backend, apps, database, openDbPromise, store, txQueue, faults,
                 settled, written, wroteInst, lastCommitInst>>

NextSeq ==
  \/ \E key \in Fields : SeqCall("get", key, UndefinedValue)
  \/ \E key \in Fields : \E value \in SetValues(key) : SeqCall("set", key, value)
  \/ \E key \in Fields : SeqCall("delete", key, UndefinedValue)
  \/ \E customSignals \in Updates :
       SeqCall("setCustomSignals", "custom_signals", Obj(customSignals))
  \/ \E i \in Insts : OpenSuccess(i)
  \/ \E c \in Calls : IssueRequest(c)
  \/ \E c \in Calls : GetSuccess(c)
  \/ \E c \in Calls : PutSuccess(c)
  \/ \E c \in Calls : DeleteSuccess(c)
  \/ \E c \in Calls : SignalsReadSuccess(c)
  \/ \E idx \in 1..MaxSeqOps : TxComplete(idx)

SpecSeq == InitSeq /\ [][NextSeq]_vars

\* C12: with a medium that reports no error, each call of a sequence of
\* awaited calls ends on the IndexedDbStorage as on the InMemoryStorage
\* (resolved or rejected, the same value, the same error), and once the
\* transactions are complete every field reads the same on both.
C12_BackendsAgree ==
  (probe.stage = "seq" /\ Done(1)) =>
    /\ calls[1].op = calls[2].op
    /\ calls[1].outcome = calls[2].outcome
    /\ calls[1].result = calls[2].result
    /\ calls[1].error = calls[2].error
    /\ txQueue = <<>> => \A key \in Fields : Read(1, key) = StorageGet(key)

\* The last call of a sequence, a setCustomSignals, failed with the limit
\* error on both backends.
C12_Witness ==
  /\ probe.stage = "seq"
  /\ ops = MaxSeqOps
  /\ Done(1)
  /\ calls[1].op = "setCustomSignals"
  /\ calls[1].error = "custom-signal-max-allowed-signals"
  /\ calls[2].error = "custom-signal-max-allowed-signals"
  /\ txQueue = <<>>
  /\ Read(1, "custom_signals") = StorageGet("custom_signals")
  /\ Read(1, "custom_signals").t = "object"

(***************************************************************************)
(* The IndexedDbStorage with a medium whose only failure is a transaction  *)
(* that does not commit.                                                   *)
(***************************************************************************)
InitCommit ==
  /\ InitStore
  /\ backend = "IndexedDbStorage"
  /\ apps[2] = App("a", "b,c", "m")
  /\ store = EarlierRecords
  /\ probe = [stage |-> "none"]

NextCommit ==
  \/ \E i \in Insts : OpenSuccess(i)
  \/ \E c \in Calls, i \in Insts, key \in Fields : IndexedDbGet(c, i, key)
  \/ \E c \in Calls, i \in Insts, key \in Fields :
       \E value \in SetValues(key) : IndexedDbSet(c, i, key, value)
  \/ \E c \in Calls, i \in Insts, key \in Fields : IndexedDbDelete(c, i, key)
  \/ \E c \in Calls, i \in Insts, customSignals \in Updates :
       IndexedDbSetCustomSignals(c, i, customSignals)
  \/ \E c \in Calls : IssueRequest(c)
  \/ \E c \in Calls : GetSuccess(c)
  \/ \E c \in Calls : PutSuccess(c)
  \/ \E c \in Calls : DeleteSuccess(c)
  \/ \E c \in Calls : SignalsReadSuccess(c)
  \/ \E idx \in 1..MaxOps : TxComplete(idx)
  \/ \E idx \in 1..MaxOps : TxAbort(idx)

SpecCommit == InitCommit /\ [][NextCommit]_vars

\* A get that followed a resolved set or delete of its record, no other
\* write to the record between them, resolved to something else than what
\* the set stored or the delete left.
MissedWrite(c) ==
  /\ Done(c) /\ calls[c].op = "get" /\ calls[c].outcome = "resolved"
  /\ \/ calls[c].expect.kind = "set" /\ calls[c].result # calls[c].expect.value
     \/ calls[c].expect.kind = "delete" /\ calls[c].result # UndefinedValue

\* C13: a set, delete or setCustomSignals resolves only once the transaction
\* that carries its write has committed (no transaction whose call has
\* resolved still awaits its commit), and no get that follows a resolved
\* call misses its write.
C13_ResumesAtCompletion ==
  /\ \A idx \in 1..Len(txQueue) :
       txQueue[idx].owner = 0 => txQueue[idx].write = NoWrite
  /\ \A c \in Calls : ~MissedWrite(c)

\* C14: for each IndexedDbStorage exactly one open request is ever made, the
\* one of its constructor; its openDbPromise, once settled, is never
\* replaced; and a call creates its transaction only on the database that
\* promise resolved to.
C14_OpenedOnce ==
  [][\A i \in Insts :
       /\ database.openRequests[i] = 1
       /\ database'.openRequests[i] = 1
       /\ openDbPromise[i] # "pending" => openDbPromise'[i] = openDbPromise[i]
       /\ \A c \in Calls :
            (calls'[c].inst = i /\ calls[c].pc = "awaitOpen" /\ calls'[c].pc = "request")
              => openDbPromise[i] = "fulfilled"]_vars

\* Two calls on instance 1 have resolved, and one open request was made for
\* it.
C14_Witness ==
  /\ \A c \in {1, 2} :
       Done(c) /\ calls[c].inst = 1 /\ calls[c].outcome = "resolved"
  /\ ops = MaxOps
  /\ openDbPromise[1] = "fulfilled"
  /\ database.openRequests[1] = 1

(***************************************************************************)
(* Two setCustomSignals calls, one after the other, in both orders.        *)
(***************************************************************************)
\* setCustomSignals run on the stored signals: whether it throws the limit
\* error, and the signals stored afterwards.
RunSetCustomSignals(storedSignals, customSignals) ==
  LET merged == mergeCustomSignals(customSignals, storedSignals)
  IN  [threw |-> merged.threw,
       stored |-> IF merged.threw THEN storedSignals ELSE merged.signals]

\* Updates A then B on the stored signals: whether the first threw, whether
\* the second threw, and the signals stored in the end.
InOrder(storedSignals, A, B) ==
  LET first == RunSetCustomSignals(storedSignals, A)
      second == RunSetCustomSignals(first.stored, B)
  IN  [threwFirst |-> first.threw, threwSecond |-> second.threw, stored |-> second.stored]

NoOrder == [threwFirst |-> FALSE, threwSecond |-> FALSE, stored |-> <<>>]

\* Two updates, neither empty, that name disjoint sets of signals.
DisjointUpdates ==
  UNION { { <<a, b>> : b \in { x \in SignalMaps \ {<<>>} :
                                (DOMAIN x) \cap (DOMAIN a) = {} } } :
          a \in SignalMaps \ {<<>>} }

InitOrder ==
  /\ probe \in { [stage |-> "input", stored |-> s, A |-> u[1], B |-> u[2],
                  AB |-> NoOrder, BA |-> NoOrder] :
                 s \in SignalMaps, u \in DisjointUpdates }
  /\ InitStore
  /\ backend = "InMemoryStorage"

ApplyOrders ==
  /\ probe.stage = "input"
  /\ probe' = [probe EXCEPT !.stage = "ordered",
                 !.AB = InOrder(probe.stored, probe.A, probe.B),
                 !.BA = InOrder(probe.stored, probe.B, probe.A)]
  /\ UNCHANGED storeVars

NextOrder == ApplyOrders

SpecOrder == InitOrder /\ [][NextOrder]_vars

\* C15 as claimed: two updates that name disjoint signals give, in either
\* order, the same outcome for each call and the same stored signals.
C15_OrderIndependent ==
  probe.stage = "ordered" =>
    /\ probe.AB.threwFirst = probe.BA.threwSecond
    /\ probe.AB.threwSecond = probe.BA.threwFirst
    /\ probe.AB.stored = probe.BA.stored

\* C15: two updates that name disjoint signals leave the same stored signals
\* in either order whenever no call of either order fails with the limit
\* error.
C15_OrderIndependentWithinLimit ==
  (/\ probe.stage = "ordered"
   /\ ~probe.AB.threwFirst /\ ~probe.AB.threwSecond
   /\ ~probe.BA.threwFirst /\ ~probe.BA.threwSecond) =>
    probe.AB.stored = probe.BA.stored

\* Both orders succeeded, one update unsetting a stored signal with null and
\* the other adding a signal given as a number.
C15_Witness ==
  /\ probe.stage = "ordered"
  /\ ~probe.AB.threwFirst /\ ~probe.AB.threwSecond
  /\ ~probe.BA.threwFirst /\ ~probe.BA.threwSecond
  /\ probe.stored = [k \in {"a"} |-> Str("1")]
  /\ probe.A = [k \in {"a"} |-> Null]
  /\ probe.B = [k \in {"c"} |-> Num(3)]
  /\ probe.AB.stored = [k \in {"c"} |-> Str("3")]
  /\ probe.BA.stored = probe.AB.stored

(***************************************************************************)
(* The IndexedDbStorage with a medium that delivers, in the end, a success *)
(* or an error for the open request and for every request of a             *)
(* transaction, and completes a transaction whose requests are done.       *)
(***************************************************************************)
InitLive ==
  /\ InitStore
  /\ backend = "IndexedDbStorage"
  /\ apps[2] = App("a,b", "c", "n")
  /\ store = EarlierRecords
  /\ probe = [stage |-> "none"]

NextLive ==
  \/ \E i \in Insts : OpenSuccess(i)
  \/ \E i \in Insts : OpenError(i)
  \/ \E c \in Calls, i \in Insts, key \in Fields : IndexedDbGet(c, i, key)
  \/ \E c \in Calls, i \in Insts, key \in Fields :
       \E value \in SetValues(key) : IndexedDbSet(c, i, key, value)
  \/ \E c \in Calls, i \in Insts, key \in Fields : IndexedDbDelete(c, i, key)
  \/ \E c \in Calls, i \in Insts, customSignals \in Updates :
       IndexedDbSetCustomSignals(c, i, customSignals)
  \/ \E c \in Calls : OpenRejected(c)
  \/ \E c \in Calls : IssueRequest(c)
  \/ \E c \in Calls : TransactionThrows(c)
  \/ \E c \in Calls : ObjectStoreThrows(c)
  \/ \E c \in Calls : RequestThrows(c)
  \/ \E c \in Calls : RequestError(c)
  \/ \E c \in Calls : GetSuccess(c)
  \/ \E c \in Calls : PutSuccess(c)
  \/ \E c \in Calls : DeleteSuccess(c)
  \/ \E c \in Calls : SignalsReadSuccess(c)
  \/ \E c \in Calls, fault \in {"objectStore", "request"} : SignalsPutThrows(c, fault)
  \/ \E idx \in 1..MaxOps : TxComplete(idx)

\* The open request of instance i is answered.
OpenAnswered(i) == OpenSuccess(i) \/ OpenError(i)

\* The call in slot c, the open promise settled, runs on: it rejects with the
\* promise, or creates its transaction and issues its request, or fails to.
Resumed(c) ==
  \/ OpenRejected(c)
  \/ IssueRequest(c)
  \/ TransactionThrows(c)
  \/ ObjectStoreThrows(c)
  \/ RequestThrows(c)

\* The get request of a setCustomSignals call is answered with a success:
\* the step SignalsReadSuccess(c), its stored and merged signals computed
\* once.
SignalsReadAnswered(c) ==
  /\ calls[c].pc = "request"
  /\ calls[c].op = "setCustomSignals"
  /\ calls[c].req = "get"
  /\ Runnable(TxIndex(c))
  /\ \E customSignals \in {calls[c].value.m},
        storedSignals \in
          {OrEmpty(getWithTransaction(RecordId(calls[c].inst, "custom_signals")))} :
       \E merged \in {mergeCustomSignals(customSignals, storedSignals)} :
         IF merged.threw
         THEN /\ calls' = [calls EXCEPT ![c] =
                             Finish(@, "rejected", UndefinedValue,
                                    "custom-signal-max-allowed-signals", "none")]
              /\ txQueue' = RemoveAt(txQueue, TxIndex(c))
         ELSE /\ calls' = [calls EXCEPT ![c].req = "put", ![c].puts = 1,
                                        ![c].result = Obj(merged.signals)]
              /\ txQueue' = txQueue
  /\ UNCHANGED <<backend, apps, database, openDbPromise, store, storage, ops, faults,
                 settled, written, wroteInst, lastCommitInst, probe>>

\* The request of the call in slot c is answered with a success or an error,
\* and the call runs on from there.
RequestAnswered(c) ==
  \/ RequestError(c)
  \/ GetSuccess(c)
  \/ PutSuccess(c)
  \/ DeleteSuccess(c)
  \/ SignalsReadAnswered(c)

\* Every open request is answered, every call whose open promise settled is
\* resumed, every request of a running transaction is answered, and a
\* transaction whose requests are done completes.
Fairness ==
  /\ \A i \in Insts : WF_vars(OpenAnswered(i))
  /\ \A c \in Calls : WF_vars(Resumed(c))
  /\ \A c \in Calls : WF_vars(RequestAnswered(c))
  /\ WF_vars(\E idx \in 1..MaxOps : TxComplete(idx))

SpecLive == InitLive /\ [][NextLive]_vars /\ Fairness

\* C16: every get, set, delete or setCustomSignals call that has started
\* ends, resolved or rejected.
C16_EveryCallEnds ==
  \A c \in Calls : InFlight(c) ~> Done(c)

\* A setCustomSignals call ended with the limit error, thrown in the middle
\* of its readwrite transaction, and a call ended with the error of the open.
C16_Witness ==
  /\ \E c \in Calls :
       /\ Done(c) /\ calls[c].op = "setCustomSignals"
       /\ calls[c].error = "custom-signal-max-allowed-signals"
  /\ \E c \in Calls : Done(c) /\ calls[c].error = "storage-open"

(***************************************************************************)
(* setCustomSignals called twice in a row with the same update, in a       *)
(* sequence of awaited calls made on both backends.                        *)
(***************************************************************************)
\* The call in backend slot b repeats the call before it: a setCustomSignals
\* with the update of a setCustomSignals that resolved.
Repeats(b) ==
  /\ probe.stage = "seq"
  /\ calls[b].op = "setCustomSignals"
  /\ probe.prev[b].op = "setCustomSignals"
  /\ probe.prev[b].outcome = "resolved"
  /\ calls[b].value = probe.prev[b].value

\* C18: on either backend, a setCustomSignals(N) that follows a resolved
\* setCustomSignals(N) resolves too, with the same signals, and the stored
\* custom_signals stays what the first call stored (on the IndexedDbStorage,
\* once the transactions are complete).
C18_Idempotent ==
  /\ (Repeats(1) /\ Done(1)) =>
       /\ calls[1].outcome = "resolved"
       /\ calls[1].result = probe.prev[1].result
       /\ txQueue = <<>> => Read(1, "custom_signals") = probe.prev[1].result
  /\ (Repeats(2) /\ Done(2)) =>
       /\ calls[2].outcome = "resolved"
       /\ calls[2].result = probe.prev[2].result
       /\ StorageGet("custom_signals") = probe.prev[2].result

\* With a and c stored, an update that unsets a and sets b was made twice:
\* both backends hold b and c after the second as after the first.
C18_Witness ==
  /\ Repeats(1) /\ Done(1) /\ Repeats(2) /\ Done(2)
  /\ txQueue = <<>>
  /\ calls[1].value.m = [k \in {"a", "b"} |-> IF k = "a" THEN Null ELSE Str("1")]
  /\ calls[1].result.m = [k \in {"b", "c"} |-> IF k = "b" THEN Str("1") ELSE Str("2")]
  /\ Read(1, "custom_signals") = calls[1].result
  /\ StorageGet("custom_signals") = calls[2].result

(***************************************************************************)
(* The open of an instance has failed.                                     *)
(***************************************************************************)
\* C17: once the open of an IndexedDbStorage instance has failed it stays
\* failed and no further open request is made for the instance; every call
\* on it that runs on ends rejected with storage-open, having issued no
\* request, in a step that leaves the records and the transactions as they
\* are; the instance has no transaction and no call with a request.
C17_OpenFailurePermanent ==
  [][\A i \in Insts :
       openDbPromise[i] = "rejected" =>
         /\ openDbPromise'[i] = "rejected"
         /\ database'.openRequests[i] = 1
         /\ \A idx \in 1..Len(txQueue') : txQueue'[idx].inst # i
         /\ \A c \in Calls :
              calls'[c].inst = i /\ calls'[c].pc # "idle" =>
                /\ calls'[c].pc \in {"awaitOpen", "done"}
                /\ calls'[c].puts = 0
                /\ calls'[c].pc = "done" =>
                     /\ calls'[c].outcome = "rejected"
                     /\ calls'[c].error = "storage-open"
                /\ (calls[c].pc = "awaitOpen" /\ calls'[c].pc = "done") =>
                     /\ store' = store
                     /\ txQueue' = txQueue]_vars

\* The open of instance 1 failed, and two calls on it, a write among them,
\* have ended with storage-open.
C17_Witness ==
  /\ openDbPromise[1] = "rejected"
  /\ database.openRequests[1] = 1
  /\ \A c \in Calls :
       Done(c) /\ calls[c].inst = 1 /\ calls[c].error = "storage-open"
  /\ \E c \in Calls : IsWrite(calls[c].op)
  /\ ops = MaxOps

(***************************************************************************)
(* The InMemoryStorage under calls made one after the other without        *)
(* waiting for their promises.                                             *)
(***************************************************************************)
\* What the stored custom_signals is once the call has been applied to it
\* on its own.
SerialApply(stored, call) ==
  IF call.op = "setCustomSignals"
  THEN LET merged == mergeCustomSignals(call.value.m, OrEmpty(stored))
       IN  IF merged.threw THEN stored ELSE Obj(merged.signals)
  ELSE IF call.op = "set" /\ call.key = "custom_signals" THEN call.value
  ELSE IF call.op = "delete" /\ call.key = "custom_signals" THEN UndefinedValue
  ELSE stored

\* C19: on the InMemoryStorage every step that touches the calls or the
\* storage is one whole call: the call it starts has ended by the end of
\* the step, no call is left suspended, and
\* the stored custom_signals after the step is the one before it with that
\* call applied; so the stored custom_signals is always the calls applied
\* one by one in the order they were made.
C19_InMemorySerial ==
  [][(backend = "InMemoryStorage" /\ <<calls, ops, storage>>' # <<calls, ops, storage>>) =>
       /\ ops' = ops + 1
       /\ \A c \in Calls : calls'[c].pc \in {"idle", "done"}
       /\ \E c \in Calls :
            /\ calls'[c].pc = "done"
            /\ calls'[c].inst = MEM
            /\ \A d \in Calls \ {c} : calls'[d].pc = calls[d].pc
            /\ (IF "custom_signals" \in DOMAIN storage'
                THEN storage'["custom_signals"] ELSE UndefinedValue)
                 = SerialApply(StorageGet("custom_signals"), calls'[c])]_vars

\* Three calls were made, the last a setCustomSignals, and the signals of
\* two setCustomSignals calls are both stored.
C19_Witness ==
  /\ backend = "InMemoryStorage"
  /\ ops = MaxMemOps
  /\ \E c \in Calls : Done(c) /\ calls[c].op = "setCustomSignals"
                        /\ calls[c].outcome = "resolved"
  /\ StorageGet("custom_signals") =
       Obj([k \in {"a", "c"} |-> IF k = "a" THEN Str("3") ELSE Str("2")])

====
